---- MODULE Spec2Model ----
(***************************************************************************)
(* A model of the TidalPlaylist cog (src/tidalplaylist/tidalplaylist.py).  *)
(*                                                                         *)
(* Every command handler is a coroutine: its code runs atomically between  *)
(* two awaits, so each action below is one await-delimited step of a       *)
(* handler.  Collaborators outside the file (the tidalapi session, the     *)
(* catalog, the play command, the chat channel) are the environment: the   *)
(* result of each call on them is drawn with \E.                           *)
(***************************************************************************)
EXTENDS Integers, Sequences, FiniteSets, TLC

(***************************************************************************)
(* Bounds of the model.                                                    *)
(***************************************************************************)
\* longest track list a catalog lookup returns in the batch specification
MaxTracks == 10
\* longest track list in the specifications that explore URLs or sessions
FewTracks == 1
\* longest URL, in segments (see Segments), in the URL specification
MaxUrlLen == 3
\* number of authorizations (tidalsetup runs) over one behaviour
MaxAuth == 2

\* number of authorizations in the specification of the store
StoreAuth == 1
\* longest track list when two requests run together
PairTracks == 2

\* "if not quiet and i % 10 == 0" (the progress cadence of queue_playlist)
ProgressEvery == 10

VARIABLES
    tidalapi_available, \* TIDALAPI_AVAILABLE: did "import tidalapi" succeed
    store,              \* self.config: the persisted global record
    session,            \* self.session: the credentials the session holds
    req,                \* the tidal requests, one record per request slot
    setup,              \* the tidalsetup runs, one record per authorization
    auth,               \* the state of each authorization's future
    load                \* the load_session task of the current process

vars == <<tidalapi_available, store, session, req, setup, auth, load>>

Reqs == {1, 2}
Auths == 1 .. MaxAuth

\* None, as a credential value
None == 0

(***************************************************************************)
(* URLs.  A URL is a sequence of segments; a segment is one of the three   *)
(* marker literals or one character of a class the patterns tell apart:    *)
(* "x" a letter, "7" a digit, "-" the hyphen, "." any other character.     *)
(* Text(url) is the character string; substring tests and regular          *)
(* expressions are evaluated on the characters.                            *)
(***************************************************************************)
Segments == {"playlist/", "album/", "track/", "x", "7", "-", "."}

Chars(seg) ==
    CASE seg = "playlist/" -> <<"p", "l", "a", "y", "l", "i", "s", "t", "/">>
      [] seg = "album/"    -> <<"a", "l", "b", "u", "m", "/">>
      [] seg = "track/"    -> <<"t", "r", "a", "c", "k", "/">>
      [] OTHER             -> <<seg>>

RECURSIVE Text(_)
Text(url) == IF url = <<>> THEN <<>> ELSE Chars(Head(url)) \o Text(Tail(url))

Letters == {"p", "l", "a", "y", "i", "s", "t", "b", "u", "m", "r", "c", "k", "x"}
Digits == {"7"}

PlaylistMarker == Chars("playlist/")
AlbumMarker == Chars("album/")
TrackMarker == Chars("track/")

\* marker in url
Contains(marker, text) ==
    \E k \in 0 .. (Len(text) - Len(marker)) :
        SubSeq(text, k + 1, k + Len(marker)) = marker

\* the longest prefix of text made of characters of class
RECURSIVE Run(_, _)
Run(class, text) ==
    IF text # <<>> /\ Head(text) \in class
    THEN <<Head(text)>> \o Run(class, Tail(text))
    ELSE <<>>

\* re.search(prefix + "([class]+)", text): group(1) of the leftmost match, or
\* <<>> when nothing matches (a match's group is never empty)
NoMatch == <<>>
RegexSearch(prefix, class, text) ==
    LET starts == {k \in 0 .. (Len(text) - Len(prefix)) :
                      /\ SubSeq(text, k + 1, k + Len(prefix)) = prefix
                      /\ k + Len(prefix) + 1 <= Len(text)
                      /\ text[k + Len(prefix) + 1] \in class}
    IN IF starts = {} THEN NoMatch
       ELSE LET k == CHOOSE s \in starts : \A t \in starts : s <= t
            IN Run(class, SubSeq(text, k + Len(prefix) + 1, Len(text)))

PlaylistId(text) == RegexSearch(PlaylistMarker, Letters \cup Digits \cup {"-"}, text)
AlbumId(text) == RegexSearch(AlbumMarker, Digits, text)
TrackId(text) == RegexSearch(TrackMarker, Digits, text)

(***************************************************************************)
(* tidal: the gates and the dispatch on the URL (lines 137-171, 225-227,   *)
(* 278-280).                                                               *)
(***************************************************************************)
\* Dispatch with the album test first
DispatchAlbumFirst(text) ==
    IF Contains(AlbumMarker, text) THEN "album"
    ELSE IF Contains(PlaylistMarker, text) THEN "playlist"
    ELSE IF Contains(TrackMarker, text) THEN "track"
    ELSE "none"

\* the if/elif chain on the markers
Dispatch(text) ==
    IF Contains(PlaylistMarker, text) THEN "playlist"
    ELSE IF Contains(AlbumMarker, text) THEN "album"
    ELSE IF Contains(TrackMarker, text) THEN "track"
    ELSE "none"

\* the re.search of the handler the URL was dispatched to
ExtractId(path, text) ==
    CASE path = "playlist" -> PlaylistId(text)
      [] path = "album"    -> AlbumId(text)
      [] path = "track"    -> TrackId(text)
      [] OTHER             -> NoMatch

\* Classify falling through to the next kind when a pattern does not match
ClassifyFallsThrough(text) ==
    IF Contains(PlaylistMarker, text) /\ PlaylistId(text) # NoMatch
    THEN [path |-> "playlist", id |-> PlaylistId(text)]
    ELSE IF Contains(AlbumMarker, text) /\ AlbumId(text) # NoMatch
    THEN [path |-> "album", id |-> AlbumId(text)]
    ELSE IF Contains(TrackMarker, text)
    THEN [path |-> "track", id |-> TrackId(text)]
    ELSE [path |-> "none", id |-> NoMatch]

\* the handler chosen and the identifier its pattern extracts
Classify(text) ==
    LET p == Dispatch(text) IN [path |-> p, id |-> ExtractId(p, text)]

\* a request slot before any request
IdleReq ==
    [pc |-> "idle", url |-> <<>>, authed |-> FALSE, audio |-> FALSE,
     voice |-> FALSE, path |-> "none", id |-> NoMatch, quiet |-> TRUE,
     total |-> 0, i |-> 0, queued |-> 0, failed |-> 0,
     \* what the request has done so far
     msgs |-> <<>>,        \* messages sent with ctx.send
     edits |-> 0,          \* calls of loading_msg.edit
     editFaults |-> 0,     \* progress edits that raised inside the loop
     lookups |-> 0,        \* calls on the catalog (playlist, album, track, tracks)
     lookupFaults |-> 0,   \* calls on the catalog that raised
     submitted |-> <<>>,   \* the tracks add_track was called with, in order
     others |-> <<>>,      \* at each of these calls, the number of calls of
                           \* add_track the other requests had made
     falseReturns |-> 0,   \* calls of add_track that returned False
     plays |-> 0,          \* calls of ctx.invoke(play_command)
     summaries |-> <<>>]   \* the final summaries shown

\* return await ctx.send(m)
Reply(rec, m) == [rec EXCEPT !.msgs = Append(@, m), !.pc = "done"]

\* the rejection each handler sends when its pattern does not match
InvalidMsg(path) ==
    CASE path = "playlist" -> "invalid_playlist_url"
      [] path = "album"    -> "invalid_album_url"
      [] path = "track"    -> "invalid_track_url"
      [] OTHER             -> "invalid_url"

\* Tidal without the test of the Audio cog
TidalSkipsAudio(rec) ==
    IF ~tidalapi_available THEN Reply(rec, "tidalapi_not_installed")
    ELSE IF ~rec.authed THEN Reply(rec, "not_authenticated")
    ELSE IF ~rec.voice THEN Reply(rec, "join_voice")
    ELSE LET c == Classify(Text(rec.url)) IN
         IF c.path = "none" THEN Reply(rec, "invalid_url")
         ELSE IF c.id = NoMatch
              THEN Reply([rec EXCEPT !.path = c.path], InvalidMsg(c.path))
              ELSE [rec EXCEPT !.path = c.path, !.id = c.id, !.pc = "read_quiet"]

\* Tidal looking at the URL before the gates
TidalClassifiesFirst(rec) ==
    LET c == Classify(Text(rec.url)) IN
    IF c.path = "none" THEN Reply(rec, "invalid_url")
    ELSE IF c.id = NoMatch
    THEN Reply([rec EXCEPT !.path = c.path], InvalidMsg(c.path))
    ELSE IF ~tidalapi_available THEN Reply(rec, "tidalapi_not_installed")
    ELSE IF ~rec.authed THEN Reply(rec, "not_authenticated")
    ELSE IF ~rec.audio THEN Reply(rec, "audio_not_loaded")
    ELSE IF ~rec.voice THEN Reply(rec, "join_voice")
    ELSE [rec EXCEPT !.path = c.path, !.id = c.id, !.pc = "read_quiet"]

\* the body of tidal up to the first await of the handler it dispatches to
Tidal(rec) ==
    IF ~tidalapi_available THEN Reply(rec, "tidalapi_not_installed")
    ELSE IF ~rec.authed THEN Reply(rec, "not_authenticated")
    ELSE IF ~rec.audio THEN Reply(rec, "audio_not_loaded")
    ELSE IF ~rec.voice THEN Reply(rec, "join_voice")
    ELSE LET c == Classify(Text(rec.url)) IN
         IF c.path = "none" THEN Reply(rec, "invalid_url")
         ELSE IF c.id = NoMatch
              THEN Reply([rec EXCEPT !.path = c.path], InvalidMsg(c.path))
              ELSE [rec EXCEPT !.path = c.path, !.id = c.id, !.pc = "read_quiet"]

\* self.session.check_login(): the session holds an access token and the
\* service accepts it (valid is the service's answer)
CheckLogin(valid) == session.access_token # None /\ valid

\* what a request finds around it: is the Audio cog loaded, is the caller
\* in a voice channel
Surroundings == [audio : BOOLEAN, voice : BOOLEAN]
AudioAndVoice == {[audio |-> TRUE, voice |-> TRUE]}

\* a user issues [p]tidal <url>
TidalInvoke(r, urls, surroundings) ==
    /\ req[r].pc = "idle"
    /\ \E url \in urls, env \in surroundings, valid \in BOOLEAN :
          req' = [req EXCEPT ![r] =
                     Tidal([IdleReq EXCEPT
                               !.url = url,
                               !.authed = tidalapi_available /\ CheckLogin(valid),
                               !.audio = env.audio,
                               !.voice = env.voice])]
    /\ UNCHANGED <<tidalapi_available, store, session, setup, auth, load>>

(***************************************************************************)
(* queue_playlist and queue_album (lines 167-274).                         *)
(***************************************************************************)
\* the except clause of the handler: the request goes on to report the error
Fault(rec) == [rec EXCEPT !.pc = "error"]

\* where the for loop stands once i tracks are done
LoopPc(i, total) == IF i < total THEN "loop" ELSE "summary"

\* quiet = await self.config.quiet_mode(), then, in queue_playlist and
\* queue_album, loading_msg = await ctx.send("Loading ...")
ReadQuiet(r) ==
    /\ req[r].pc = "read_quiet"
    /\ \E sendOk \in BOOLEAN :
          LET rec == [req[r] EXCEPT !.quiet = store.quiet_mode] IN
          req' = [req EXCEPT ![r] =
                     IF rec.path = "track" THEN [rec EXCEPT !.pc = "track_fetch"]
                     ELSE IF sendOk
                          THEN [rec EXCEPT !.pc = "fetch",
                                           !.msgs = Append(@, "loading")]
                          ELSE Fault(rec)]
    /\ UNCHANGED <<tidalapi_available, store, session, setup, auth, load>>

\* playlist = await run_in_executor(None, self.session.playlist, playlist_id)
\* album = await run_in_executor(None, self.session.album, album_id)
FetchCollection(r) ==
    /\ req[r].pc = "fetch"
    /\ \E ok \in BOOLEAN :
          LET rec == [req[r] EXCEPT !.lookups = @ + 1] IN
          req' = [req EXCEPT ![r] =
                     IF ok THEN [rec EXCEPT !.pc = "fetch_tracks"]
                     ELSE Fault([rec EXCEPT !.lookupFaults = @ + 1])]
    /\ UNCHANGED <<tidalapi_available, store, session, setup, auth, load>>

\* FetchTracks taking a track list that could not be fetched for an empty one
FetchTracksFaultAsEmpty(r, maxTracks) ==
    /\ req[r].pc = "fetch_tracks"
    /\ \E ok \in BOOLEAN, n \in 0 .. maxTracks, editOk \in BOOLEAN :
          LET rec == [req[r] EXCEPT !.lookups = @ + 1] IN
          req' = [req EXCEPT ![r] =
                     IF ~ok THEN [rec EXCEPT !.lookupFaults = @ + 1,
                                             !.pc = LoopPc(0, 0)]
                     ELSE IF rec.quiet
                          THEN [rec EXCEPT !.total = n, !.pc = LoopPc(0, n)]
                          ELSE IF editOk
                               THEN [rec EXCEPT !.total = n, !.edits = @ + 1,
                                                !.pc = LoopPc(0, n)]
                               ELSE Fault([rec EXCEPT !.total = n, !.edits = @ + 1])]
    /\ UNCHANGED <<tidalapi_available, store, session, setup, auth, load>>

\* tracks = await run_in_executor(None, playlist.tracks); total = len(tracks);
\* in verbose mode the loading message is edited to "Queueing ... (total
\* tracks)"; queued = 0; failed = 0
FetchTracks(r, maxTracks) ==
    /\ req[r].pc = "fetch_tracks"
    /\ \E ok \in BOOLEAN, n \in 0 .. maxTracks, editOk \in BOOLEAN :
          LET rec == [req[r] EXCEPT !.lookups = @ + 1] IN
          req' = [req EXCEPT ![r] =
                     IF ~ok THEN Fault([rec EXCEPT !.lookupFaults = @ + 1])
                     ELSE IF rec.quiet
                          THEN [rec EXCEPT !.total = n, !.pc = LoopPc(0, n)]
                          ELSE IF editOk
                               THEN [rec EXCEPT !.total = n, !.edits = @ + 1,
                                                !.pc = LoopPc(0, n)]
                               ELSE Fault([rec EXCEPT !.total = n, !.edits = @ + 1])]
    /\ UNCHANGED <<tidalapi_available, store, session, setup, auth, load>>

(***************************************************************************)
(* add_track (lines 302-318).  What a call meets:                          *)
(*   "played"        ctx.invoke(play_command, query) returns               *)
(*   "invoke_fault"  ctx.invoke raises                                     *)
(*   "no_command"    bot.get_command("play") is None                       *)
(*   "query_fault"   building the query raises (a track without artist)    *)
(***************************************************************************)
AddOutcomes == {"played", "invoke_fault", "no_command", "query_fault"}

\* the value add_track returns, and whether it invoked the play command
AddTrack(outcome) ==
    [ret |-> outcome = "played",
     invoked |-> outcome \in {"played", "invoke_fault"}]

\* the number of calls of add_track the requests of S have made
RECURSIVE Submissions(_)
Submissions(S) ==
    IF S = {} THEN 0
    ELSE LET s == CHOOSE x \in S : TRUE
         IN Len(req[s].submitted) + Submissions(S \ {s})

\* request r as it calls add_track, after what the other requests submitted
Calling(r) == [req[r] EXCEPT !.others = Append(@, Submissions(Reqs \ {r}))]

\* add_track called from the request rec on its track number t
Submit(rec, t, outcome) ==
    LET a == AddTrack(outcome) IN
    [rec EXCEPT !.submitted = Append(@, t),
                !.plays = IF a.invoked THEN @ + 1 ELSE @,
                !.falseReturns = IF a.ret THEN @ ELSE @ + 1]

\* Counted with a break after a failure: the loop ends at the first track
\* that fails
CountedBreak(rec, ret) ==
    IF ret THEN [rec EXCEPT !.queued = @ + 1]
    ELSE [rec EXCEPT !.failed = @ + 1, !.pc = "summary"]

\* Counted trying a track again when its submission failed
CountedRetries(rec, ret) ==
    IF ret THEN [rec EXCEPT !.queued = @ + 1]
    ELSE [rec EXCEPT !.i = @ - 1, !.pc = "loop"]

\* lines 200-203 (258-261): the counter the value add_track returned selects
Counted(rec, ret) ==
    IF ret THEN [rec EXCEPT !.queued = @ + 1] ELSE [rec EXCEPT !.failed = @ + 1]

\* Progress without the test of quiet: the progress edit in both modes
ProgressIgnoresQuiet(rec, editOk) ==
    IF rec.path = "playlist" /\ rec.i % ProgressEvery = 0
    THEN IF editOk
         THEN [rec EXCEPT !.edits = @ + 1]
         ELSE [rec EXCEPT !.edits = @ + 1, !.editFaults = @ + 1, !.failed = @ + 1]
    ELSE rec

\* Progress reading quiet_mode from the store at every track
ProgressReadsStore(rec, editOk) ==
    IF rec.path = "playlist" /\ ~store.quiet_mode /\ rec.i % ProgressEvery = 0
    THEN IF editOk
         THEN [rec EXCEPT !.edits = @ + 1]
         ELSE [rec EXCEPT !.edits = @ + 1, !.editFaults = @ + 1, !.failed = @ + 1]
    ELSE rec

\* lines 205-211: in queue_playlist, in verbose mode, every ProgressEvery
\* tracks the loading message is edited; if the edit raises, the except
\* clause of the loop body counts a failure
Progress(rec, editOk) ==
    IF rec.path = "playlist" /\ ~rec.quiet /\ rec.i % ProgressEvery = 0
    THEN IF editOk
         THEN [rec EXCEPT !.edits = @ + 1]
         ELSE [rec EXCEPT !.edits = @ + 1, !.editFaults = @ + 1, !.failed = @ + 1]
    ELSE rec

\* one iteration of the for loop on the next track
LoopBody(rec, outcome, editOk) ==
    LET t == rec.i + 1
        called == [Submit(rec, t, outcome) EXCEPT !.i = t,
                                                  !.pc = LoopPc(t, rec.total)]
    IN Progress(Counted(called, AddTrack(outcome).ret), editOk)

LoopIteration(r) ==
    /\ req[r].pc = "loop"
    /\ \E outcome \in AddOutcomes, editOk \in BOOLEAN :
          req' = [req EXCEPT ![r] = LoopBody(Calling(r), outcome, editOk)]
    /\ UNCHANGED <<tidalapi_available, store, session, setup, auth, load>>

\* SummaryText with the warning test written failed >= 0
SummaryTextAlwaysWarns(queued, total, failed) ==
    [queued |-> queued, total |-> total,
     warning |-> failed >= 0,
     failed |-> IF failed >= 0 THEN failed ELSE 0]

\* result = "Queued queued/total tracks", plus "failed tracks failed" if failed > 0
SummaryText(queued, total, failed) ==
    [queued |-> queued, total |-> total,
     warning |-> failed > 0,
     failed |-> IF failed > 0 THEN failed ELSE 0]

\* await loading_msg.edit(content=result)
SummaryEdit(r) ==
    /\ req[r].pc = "summary"
    /\ \E ok \in BOOLEAN :
          LET rec == [req[r] EXCEPT !.edits = @ + 1] IN
          req' = [req EXCEPT ![r] =
                     IF ok
                     THEN [rec EXCEPT !.pc = "done",
                                      !.summaries = Append(@,
                                          SummaryText(rec.queued, rec.total, rec.failed))]
                     ELSE Fault(rec)]
    /\ UNCHANGED <<tidalapi_available, store, session, setup, auth, load>>

\* except Exception as e: await ctx.send("Error: ...")
ErrorSend(r) ==
    /\ req[r].pc = "error"
    /\ req' = [req EXCEPT ![r] = Reply(req[r], "error")]
    /\ UNCHANGED <<tidalapi_available, store, session, setup, auth, load>>

(***************************************************************************)
(* queue_track (lines 276-300).                                            *)
(***************************************************************************)
\* track = await run_in_executor(None, self.session.track, track_id)
TrackFetch(r) ==
    /\ req[r].pc = "track_fetch"
    /\ \E ok \in BOOLEAN :
          LET rec == [req[r] EXCEPT !.lookups = @ + 1] IN
          req' = [req EXCEPT ![r] =
                     IF ok THEN [rec EXCEPT !.pc = "track_add", !.total = 1]
                     ELSE Fault([rec EXCEPT !.lookupFaults = @ + 1])]
    /\ UNCHANGED <<tidalapi_available, store, session, setup, auth, load>>

\* what queue_track does with the value add_track returned
TrackReport(rec, ret, sendOk) ==
    IF ret
    THEN IF rec.quiet THEN [rec EXCEPT !.pc = "done"]
         ELSE IF sendOk THEN Reply(rec, "queued") ELSE Fault(rec)
    ELSE IF sendOk THEN Reply(rec, "failed_to_queue") ELSE Fault(rec)

\* if await self.add_track(ctx, track, quiet=False): ... else: ...
TrackAdd(r) ==
    /\ req[r].pc = "track_add"
    /\ \E outcome \in AddOutcomes, sendOk \in BOOLEAN :
          req' = [req EXCEPT ![r] =
                     TrackReport([Submit(Calling(r), 1, outcome) EXCEPT !.i = 1],
                                 AddTrack(outcome).ret, sendOk)]
    /\ UNCHANGED <<tidalapi_available, store, session, setup, auth, load>>

(***************************************************************************)
(* tidalquiet (lines 124-135): enabled is "none" when no argument is given *)
(***************************************************************************)
\* the store as tidalquiet leaves it: without argument it reads quiet_mode
\* and reports it (lines 128-131), with one it sets quiet_mode (line 133)
QuietModeSet(st, enabled) ==
    IF enabled = "none" THEN st
    ELSE [st EXCEPT !.quiet_mode = (enabled = "true")]

TidalQuiet(enabled) ==
    /\ enabled \in {"none", "true", "false"}
    /\ store' = QuietModeSet(store, enabled)
    /\ UNCHANGED <<tidalapi_available, session, req, setup, auth, load>>

(***************************************************************************)
(* Credentials.  The tokens an authorization a issues are written a; an    *)
(* expiry time is a datetime (what the session holds after an              *)
(* authorization) or the float its timestamp() gives (what the store       *)
(* holds, and what load_session hands to the session).                     *)
(***************************************************************************)
NoExpiry == [kind |-> "none", of |-> None]
DateTime(a) == [kind |-> "datetime", of |-> a]
\* expiry_time.timestamp()
Timestamp(e) == [kind |-> "timestamp", of |-> e.of]
\* the truth value of an expiry time
Truthy(e) == e.kind # "none"

\* default_global, registered in __init__
DefaultGlobal ==
    [token_type |-> None, access_token |-> None, refresh_token |-> None,
     expiry_time |-> NoExpiry, quiet_mode |-> TRUE]

\* tidalapi.Session(): a session without credentials
NewSession ==
    [token_type |-> None, access_token |-> None, refresh_token |-> None,
     expiry_time |-> NoExpiry]

(***************************************************************************)
(* load_session (lines 43-68), the task __init__ creates.  Each await of a *)
(* config value is a step; the last step is lines 53-66.                   *)
(***************************************************************************)
\* the task as __init__ leaves it: created only if tidalapi is available
NewLoad(available) ==
    [pc |-> IF available THEN "token_type" ELSE "off",
     token_type |-> None, access_token |-> None, refresh_token |-> None,
     expiry_time |-> NoExpiry,
     loaded |-> FALSE,     \* load_oauth_session was called
     checked |-> FALSE,    \* check_login was called
     result |-> "none"]

LoadTokenType ==
    /\ load.pc = "token_type"
    /\ load' = [load EXCEPT !.token_type = store.token_type, !.pc = "access_token"]
    /\ UNCHANGED <<tidalapi_available, store, session, req, setup, auth>>

LoadAccessToken ==
    /\ load.pc = "access_token"
    /\ load' = [load EXCEPT !.access_token = store.access_token, !.pc = "refresh_token"]
    /\ UNCHANGED <<tidalapi_available, store, session, req, setup, auth>>

LoadRefreshToken ==
    /\ load.pc = "refresh_token"
    /\ load' = [load EXCEPT !.refresh_token = store.refresh_token, !.pc = "expiry_time"]
    /\ UNCHANGED <<tidalapi_available, store, session, req, setup, auth>>

LoadExpiryTime ==
    /\ load.pc = "expiry_time"
    /\ load' = [load EXCEPT !.expiry_time = store.expiry_time, !.pc = "decide"]
    /\ UNCHANGED <<tidalapi_available, store, session, req, setup, auth>>

\* HasCredentials without the test of refresh_token
HasCredentialsNoRefresh(l) ==
    l.token_type # None /\ l.access_token # None

\* if token_type and access_token and refresh_token
HasCredentials(l) ==
    l.token_type # None /\ l.access_token # None /\ l.refresh_token # None

\* lines 53-66: load_oauth_session and check_login, or "No Tidal credentials"
LoadOauthSession ==
    /\ load.pc = "decide"
    /\ \E valid \in BOOLEAN :
          IF HasCredentials(load)
          THEN /\ session' = [token_type |-> load.token_type,
                              access_token |-> load.access_token,
                              refresh_token |-> load.refresh_token,
                              expiry_time |-> load.expiry_time]
               /\ load' = [load EXCEPT !.pc = "done", !.loaded = TRUE,
                                       !.checked = TRUE,
                                       !.result = IF valid THEN "loaded" ELSE "expired"]
          ELSE /\ session' = session
               /\ load' = [load EXCEPT !.pc = "done", !.result = "no_credentials"]
    /\ UNCHANGED <<tidalapi_available, store, req, setup, auth>>

(***************************************************************************)
(* tidalsetup (lines 70-122).  Run a owns authorization a: login_oauth     *)
(* starts it and returns its future, which the library resolves in a       *)
(* thread of its own.                                                      *)
(***************************************************************************)
IdleSetup ==
    [pc |-> "idle",
     msgs |-> <<>>,     \* messages sent with ctx.send
     wrote |-> {},      \* the fields of the store this run has set
     before |-> <<>>]   \* the credentials in the store when the run began

\* the four credential fields of the store
Credentials(st) ==
    <<st.token_type, st.access_token, st.refresh_token, st.expiry_time>>

\* return await ctx.send(m), for a tidalsetup run
SetupReply(run, m) == [run EXCEPT !.msgs = Append(@, m), !.pc = "done"]

\* lines 75-95: the library check, "Starting OAuth setup...", login_oauth and
\* the embed with the verification URL
SetupStart(a) ==
    /\ setup[a].pc = "idle"
    /\ \E outcome \in {"ok", "login_oauth_fault", "send_fault"} :
          IF ~tidalapi_available
          THEN /\ setup' = [setup EXCEPT ![a] =
                               SetupReply([@ EXCEPT !.before = Credentials(store)],
                                          "tidalapi_not_installed")]
               /\ auth' = auth
          ELSE /\ setup' = [setup EXCEPT ![a] =
                               [@ EXCEPT !.before = Credentials(store),
                                         !.msgs = IF outcome = "ok"
                                                  THEN @ \o <<"starting", "visit_url">>
                                                  ELSE Append(@, "starting"),
                                         !.pc = IF outcome = "ok" THEN "waiting"
                                                ELSE "error"]]
               /\ auth' = [auth EXCEPT ![a] = IF outcome = "login_oauth_fault"
                                              THEN @ ELSE "pending"]
    /\ UNCHANGED <<tidalapi_available, store, session, req, load>>

\* the library's thread: the user approved the link and process_auth_token
\* stores the credentials in the session (withExpiry: the library also sets
\* expiry_time).  It does so whether or not tidalsetup still waits.
AuthGrant(a) ==
    /\ auth[a] = "pending"
    /\ auth' = [auth EXCEPT ![a] = "granted"]
    /\ \E withExpiry \in BOOLEAN :
          session' = [token_type |-> a, access_token |-> a, refresh_token |-> a,
                      expiry_time |-> IF withExpiry THEN DateTime(a) ELSE NoExpiry]
    /\ UNCHANGED <<tidalapi_available, store, req, setup, load>>

\* the library's thread: the link expired or was refused, future.result raises
AuthDeny(a) ==
    /\ auth[a] = "pending"
    /\ auth' = [auth EXCEPT ![a] = "denied"]
    /\ UNCHANGED <<tidalapi_available, store, session, req, setup, load>>

\* SetupTimeout without its return: after "OAuth timed out" the run goes on
\* to line 105
SetupTimeoutFallsThrough(a) ==
    /\ setup[a].pc = "waiting"
    /\ auth[a] = "pending"
    /\ \E valid \in BOOLEAN :
          IF CheckLogin(valid)
          THEN /\ store' = [store EXCEPT !.token_type = session.token_type]
               /\ setup' = [setup EXCEPT ![a] =
                               [@ EXCEPT !.msgs = Append(@, "timed_out"),
                                         !.wrote = @ \cup {"token_type"},
                                         !.pc = "access_token"]]
          ELSE /\ store' = store
               /\ setup' = [setup EXCEPT ![a] =
                               SetupReply([@ EXCEPT !.msgs = Append(@, "timed_out")],
                                          "login_failed")]
    /\ UNCHANGED <<tidalapi_available, session, req, auth, load>>

\* except asyncio.TimeoutError: return await ctx.send("OAuth timed out")
SetupTimeout(a) ==
    /\ setup[a].pc = "waiting"
    /\ auth[a] = "pending"
    /\ setup' = [setup EXCEPT ![a] = SetupReply(@, "timed_out")]
    /\ UNCHANGED <<tidalapi_available, store, session, req, auth, load>>

\* future.result raised: the outer except clause
SetupWaitFault(a) ==
    /\ setup[a].pc = "waiting"
    /\ auth[a] = "denied"
    /\ setup' = [setup EXCEPT ![a] = [@ EXCEPT !.pc = "error"]]
    /\ UNCHANGED <<tidalapi_available, store, session, req, auth, load>>

\* SetupLogin setting token_type before the login check
SetupLoginStoresFirst(a) ==
    /\ setup[a].pc = "waiting"
    /\ auth[a] = "granted"
    /\ store' = [store EXCEPT !.token_type = session.token_type]
    /\ \E valid \in BOOLEAN :
          IF CheckLogin(valid)
          THEN setup' = [setup EXCEPT ![a] =
                            [@ EXCEPT !.wrote = @ \cup {"token_type"},
                                      !.pc = "access_token"]]
          ELSE setup' = [setup EXCEPT ![a] = SetupReply(@, "login_failed")]
    /\ UNCHANGED <<tidalapi_available, session, req, auth, load>>

\* the wait returned: if self.session.check_login(), set token_type (lines
\* 105-106), else "Login failed" (line 118)
SetupLogin(a) ==
    /\ setup[a].pc = "waiting"
    /\ auth[a] = "granted"
    /\ \E valid \in BOOLEAN :
          IF CheckLogin(valid)
          THEN /\ store' = [store EXCEPT !.token_type = session.token_type]
               /\ setup' = [setup EXCEPT ![a] =
                               [@ EXCEPT !.wrote = @ \cup {"token_type"},
                                         !.pc = "access_token"]]
          ELSE /\ store' = store
               /\ setup' = [setup EXCEPT ![a] = SetupReply(@, "login_failed")]
    /\ UNCHANGED <<tidalapi_available, session, req, auth, load>>

\* line 107
SetupAccessToken(a) ==
    /\ setup[a].pc = "access_token"
    /\ store' = [store EXCEPT !.access_token = session.access_token]
    /\ setup' = [setup EXCEPT ![a] =
                    [@ EXCEPT !.wrote = @ \cup {"access_token"},
                              !.pc = "refresh_token"]]
    /\ UNCHANGED <<tidalapi_available, session, req, auth, load>>

\* line 108
SetupRefreshToken(a) ==
    /\ setup[a].pc = "refresh_token"
    /\ store' = [store EXCEPT !.refresh_token = session.refresh_token]
    /\ setup' = [setup EXCEPT ![a] =
                    [@ EXCEPT !.wrote = @ \cup {"refresh_token"},
                              !.pc = "expiry_time"]]
    /\ UNCHANGED <<tidalapi_available, session, req, auth, load>>

\* lines 110-115: the expiry time is set if the session has one (a float,
\* which load_session may have put there, has no timestamp()); without one
\* the run goes straight to "Setup complete!"
SetupExpiryTime(a) ==
    /\ setup[a].pc = "expiry_time"
    /\ IF ~Truthy(session.expiry_time)
       THEN /\ store' = store
            /\ setup' = [setup EXCEPT ![a] = SetupReply(@, "setup_complete")]
       ELSE IF session.expiry_time.kind = "datetime"
            THEN /\ store' = [store EXCEPT !.expiry_time = Timestamp(session.expiry_time)]
                 /\ setup' = [setup EXCEPT ![a] =
                                 [@ EXCEPT !.wrote = @ \cup {"expiry_time"},
                                           !.pc = "complete"]]
            ELSE /\ store' = store
                 /\ setup' = [setup EXCEPT ![a] = [@ EXCEPT !.pc = "error"]]
    /\ UNCHANGED <<tidalapi_available, session, req, auth, load>>

\* line 115, after the expiry time was set
SetupComplete(a) ==
    /\ setup[a].pc = "complete"
    /\ setup' = [setup EXCEPT ![a] = SetupReply(@, "setup_complete")]
    /\ UNCHANGED <<tidalapi_available, store, session, req, auth, load>>

\* lines 120-122
SetupError(a) ==
    /\ setup[a].pc = "error"
    /\ setup' = [setup EXCEPT ![a] = SetupReply(@, "error")]
    /\ UNCHANGED <<tidalapi_available, store, session, req, auth, load>>

(***************************************************************************)
(* The process stops and starts again: __init__ (lines 20-41) runs anew.   *)
(* The store persists; the session, the running handlers and the library's *)
(* threads do not.                                                         *)
(***************************************************************************)
Restart ==
    /\ session' = NewSession
    /\ load' = NewLoad(tidalapi_available)
    /\ req' = [r \in Reqs |-> IdleReq]
    /\ setup' = [a \in Auths |->
                    IF setup[a].pc \in {"idle", "done"} THEN setup[a]
                    ELSE [setup[a] EXCEPT !.pc = "killed"]]
    /\ auth' = [a \in Auths |-> IF auth[a] = "pending" THEN "dead" ELSE auth[a]]
    /\ UNCHANGED <<tidalapi_available, store>>

(***************************************************************************)
(* Specifications.                                                         *)
(***************************************************************************)
\* the steps of a playlist or album request after its invocation
CollectionStep(r, maxTracks) ==
    \/ ReadQuiet(r)
    \/ FetchCollection(r)
    \/ FetchTracks(r, maxTracks)
    \/ LoopIteration(r)
    \/ SummaryEdit(r)
    \/ ErrorSend(r)

\* the further steps of a track request
TrackStep(r) ==
    \/ TrackFetch(r)
    \/ TrackAdd(r)

\* The owner starts the tidalsetup runs one after the other, run a + 1 once
\* run a has returned (its authorization may still be pending).
MayStart(a) ==
    /\ \A b \in Auths : b < a => setup[b].pc # "idle"
    /\ \A b \in Auths \ {a} : setup[b].pc \in {"idle", "done", "killed"}

\* the steps of tidalsetup run a and of its authorization
SetupStep(a) ==
    \/ MayStart(a) /\ SetupStart(a)
    \/ AuthGrant(a)
    \/ AuthDeny(a)
    \/ SetupTimeout(a)
    \/ SetupWaitFault(a)
    \/ SetupLogin(a)
    \/ SetupAccessToken(a)
    \/ SetupRefreshToken(a)
    \/ SetupExpiryTime(a)
    \/ SetupComplete(a)
    \/ SetupError(a)

LoadStep ==
    \/ LoadTokenType
    \/ LoadAccessToken
    \/ LoadRefreshToken
    \/ LoadExpiryTime
    \/ LoadOauthSession

\* the state __init__ leaves on a fresh store
Init ==
    /\ tidalapi_available \in BOOLEAN
    /\ store = DefaultGlobal
    /\ session = NewSession
    /\ req = [r \in Reqs |-> IdleReq]
    /\ setup = [a \in Auths |-> IdleSetup]
    /\ auth = [a \in Auths |-> "none"]
    /\ load = NewLoad(tidalapi_available)

\* Sessions: load_session, tidalsetup and its authorizations, restarts, and
\* tidal requests up to their gates (on a URL no handler takes, from a caller
\* in a voice channel, with Audio loaded).
BadUrl == <<"x">>

Next ==
    \/ LoadStep
    \/ \E a \in Auths : SetupStep(a)
    \/ Restart
    \/ TidalInvoke(1, {BadUrl}, AudioAndVoice)

Spec == Init /\ [][Next]_vars

\* the store after the tidalsetup run of an earlier process completed
StoredBy(a) ==
    [token_type |-> a, access_token |-> a, refresh_token |-> a,
     expiry_time |-> Timestamp(DateTime(a)), quiet_mode |-> TRUE]

\* an authorization of an earlier process, none of this behaviour's
Earlier == MaxAuth + 1

\* the state __init__ leaves on a store that is fresh or was filled by the
\* tidalsetup run of an earlier process
InitStore ==
    /\ tidalapi_available \in BOOLEAN
    /\ store \in {DefaultGlobal, StoredBy(Earlier)}
    /\ session = NewSession
    /\ req = [r \in Reqs |-> IdleReq]
    /\ setup = [a \in Auths |-> IdleSetup]
    /\ auth = [a \in Auths |-> "none"]
    /\ load = NewLoad(tidalapi_available)

\* The store: every command and task of the cog that reads or writes it.
NextStore ==
    \/ LoadStep
    \/ \E a \in 1 .. StoreAuth : SetupStep(a)
    \/ Restart
    \/ \E e \in {"none", "true", "false"} : TidalQuiet(e)
    \/ TidalInvoke(1, {BadUrl}, AudioAndVoice)

SpecStore == InitStore /\ [][NextStore]_vars

\* A process that has started (load_session has returned) on a store that is
\* fresh or was filled by an earlier process.
InitStarted ==
    /\ tidalapi_available \in BOOLEAN
    /\ store \in {DefaultGlobal, StoredBy(1)}
    /\ req = [r \in Reqs |-> IdleReq]
    /\ setup = [a \in Auths |-> IdleSetup]
    /\ auth = [a \in Auths |-> "none"]
    /\ \E valid \in BOOLEAN :
          LET read == [NewLoad(tidalapi_available) EXCEPT
                          !.token_type = store.token_type,
                          !.access_token = store.access_token,
                          !.refresh_token = store.refresh_token,
                          !.expiry_time = store.expiry_time]
          IN IF ~tidalapi_available
             THEN load = NewLoad(FALSE) /\ session = NewSession
             ELSE IF HasCredentials(read)
                  THEN /\ load = [read EXCEPT !.pc = "done", !.loaded = TRUE,
                                              !.checked = TRUE,
                                              !.result = IF valid THEN "loaded"
                                                         ELSE "expired"]
                       /\ session = [token_type |-> read.token_type,
                                     access_token |-> read.access_token,
                                     refresh_token |-> read.refresh_token,
                                     expiry_time |-> read.expiry_time]
                  ELSE /\ load = [read EXCEPT !.pc = "done",
                                              !.result = "no_credentials"]
                       /\ session = NewSession

\* Batches: playlist and album requests with track lists up to MaxTracks.
PlaylistUrl == <<"playlist/", "x">>
AlbumUrl == <<"album/", "7">>

NextBatch ==
    \/ \E e \in {"none", "true", "false"} : TidalQuiet(e)
    \/ TidalInvoke(1, {PlaylistUrl, AlbumUrl}, Surroundings)
    \/ CollectionStep(1, MaxTracks)

SpecBatch == InitStarted /\ [][NextBatch]_vars

\* The event loop resumes a suspended handler whenever the call it awaits
\* has returned or raised, and every call the handler awaits does so.
SpecBatchLive == SpecBatch /\ WF_vars(CollectionStep(1, MaxTracks))

\* URLs: requests on every URL of up to MaxUrlLen segments.
RECURSIVE UrlsOfLen(_)
UrlsOfLen(n) ==
    IF n = 0 THEN {<<>>}
    ELSE {Append(u, seg) : u \in UrlsOfLen(n - 1), seg \in Segments}

Urls == UNION {UrlsOfLen(n) : n \in 0 .. MaxUrlLen}

NextUrl ==
    \/ \E e \in {"none", "true", "false"} : TidalQuiet(e)
    \/ TidalInvoke(1, Urls, Surroundings)
    \/ CollectionStep(1, FewTracks)
    \/ TrackStep(1)

SpecUrl == InitStarted /\ [][NextUrl]_vars

\* Pairs: two playlist requests in flight together, each a coroutine that
\* yields at its awaits, with track lists up to PairTracks.
NextPair ==
    \E r \in Reqs :
        \/ TidalInvoke(r, {PlaylistUrl}, AudioAndVoice)
        \/ CollectionStep(r, PairTracks)

SpecPair == InitStarted /\ [][NextPair]_vars

(***************************************************************************)
(* Properties of the batches (SpecBatch).                                  *)
(***************************************************************************)
\* <<1, ..., n>>: the first n tracks of a list, in the list's order
FirstTracks(n) == [k \in 1 .. n |-> k]

\* request r was dispatched to queue_playlist or queue_album
IsBatch(r) == req[r].path \in {"playlist", "album"}

\* C1: when a batch over N tracks of which K submissions returned failure
\* shows its summary, add_track was called N times in the list's order and
\* the summary reports total N, queued N - K and failed K.
C1_SummaryCounts ==
    \A r \in Reqs :
        IsBatch(r) /\ req[r].summaries # <<>> =>
            /\ req[r].submitted = FirstTracks(req[r].total)
            /\ req[r].summaries =
                  <<[total |-> req[r].total,
                     queued |-> req[r].total - req[r].falseReturns,
                     warning |-> req[r].falseReturns > 0,
                     failed |-> req[r].falseReturns]>>

\* C2: a failed submission or a fault in the loop body never ends the batch:
\* the tracks are attempted once each in order, and once the first track was
\* attempted the request leaves the loop only after the last one.
C2_NoAbortNoRetry ==
    \A r \in Reqs :
        IsBatch(r) =>
            /\ req[r].i <= req[r].total
            /\ req[r].submitted = FirstTracks(req[r].i)
            /\ req[r].i > 0 /\ req[r].pc # "loop" => req[r].i = req[r].total

\* a verbose playlist batch of ProgressEvery tracks has ended its loop
\* although submissions returned False and the progress edit raised
C2_Witness ==
    \E r \in Reqs :
        /\ IsBatch(r)
        /\ req[r].pc = "summary"
        /\ req[r].total = ProgressEvery
        /\ req[r].falseReturns > 0
        /\ req[r].queued < req[r].total
        /\ req[r].editFaults > 0

\* C3: every track of a batch increments exactly one of queued and failed:
\* queued + failed is the number of tracks processed so far, and in the
\* summary queued + failed is the total.
C3_OneCounterPerTrack ==
    \A r \in Reqs :
        IsBatch(r) =>
            /\ req[r].queued + req[r].failed = req[r].i
            /\ \A k \in 1 .. Len(req[r].summaries) :
                  req[r].summaries[k].queued + req[r].summaries[k].failed
                      = req[r].summaries[k].total

\* C10: a batch over an empty track list never calls add_track nor the play
\* command, and its summary is 0/0 without a failure warning.
C10_EmptyCollection ==
    \A r \in Reqs :
        IsBatch(r) /\ req[r].total = 0 =>
            /\ req[r].submitted = <<>>
            /\ req[r].plays = 0
            /\ req[r].summaries \in
                  {<<>>, <<[total |-> 0, queued |-> 0, warning |-> FALSE, failed |-> 0]>>}

\* a verbose batch has shown the summary of an empty track list
C10_Witness ==
    \E r \in Reqs :
        /\ IsBatch(r)
        /\ req[r].lookups = 2
        /\ req[r].total = 0
        /\ ~req[r].quiet
        /\ req[r].pc = "done"
        /\ Len(req[r].summaries) = 1

\* C12: a quiet batch sends the loading message and edits it once, to the
\* summary, after the last track (at most one more message, the error
\* report), however many tracks it has; a step of the loop sends no message
\* in either mode, makes no edit in quiet mode and at most one edit, the
\* progress, in verbose mode.
C12_QuietBatchOutput ==
    /\ [](\A r \in Reqs :
             IsBatch(r) /\ req[r].quiet /\ req[r].pc # "read_quiet" =>
                 /\ req[r].edits <= 1
                 /\ req[r].edits = 1 => req[r].i = req[r].total /\ req[r].pc # "loop"
                 /\ req[r].msgs \in {<<>>, <<"loading">>, <<"error">>,
                                     <<"loading", "error">>})
    /\ [][\A r \in Reqs :
             IsBatch(r) /\ req'[r].i = req[r].i + 1 =>
                 /\ req'[r].msgs = req[r].msgs
                 /\ req'[r].summaries = req[r].summaries
                 /\ req'[r].edits \in {req[r].edits, req[r].edits + 1}
                 /\ req[r].quiet => req'[r].edits = req[r].edits]_vars

\* a quiet playlist batch of ProgressEvery tracks has ended: one message, one
\* edit
C12_Witness ==
    \E r \in Reqs :
        /\ req[r].path = "playlist"
        /\ req[r].quiet
        /\ req[r].pc = "done"
        /\ req[r].total = ProgressEvery
        /\ req[r].submitted = FirstTracks(ProgressEvery)
        /\ req[r].msgs = <<"loading">>
        /\ req[r].edits = 1
        /\ Len(req[r].summaries) = 1

\* C13: a batch whose lookup of the collection or of its track list raised
\* is over: it submits no track, invokes no play command, shows no summary
\* and makes no edit, and it ends having sent the error message.
C13_LookupFaultAborts ==
    \A r \in Reqs :
        IsBatch(r) /\ req[r].lookupFaults > 0 =>
            /\ req[r].lookupFaults = 1
            /\ req[r].submitted = <<>>
            /\ req[r].plays = 0
            /\ req[r].summaries = <<>>
            /\ req[r].edits = 0
            /\ req[r].pc \in {"error", "done"}
            /\ req[r].pc = "done" => req[r].msgs = <<"loading", "error">>

\* the playlist or album was fetched, the fetch of its track list raised and
\* the request ended with the error message
C13_Witness ==
    \E r \in Reqs :
        /\ IsBatch(r)
        /\ req[r].lookups = 2
        /\ req[r].lookupFaults = 1
        /\ req[r].pc = "done"
        /\ req[r].msgs = <<"loading", "error">>

\* C17: a summary is shown once, by the step that ends the request, after
\* add_track was called on the last track; and a batch whose track list was
\* resolved ends with its one summary shown, unless the edit that shows the
\* summary raises (the request then ends in its except clause), whatever
\* the submissions return.
C17_SummaryOnceAtEnd ==
    /\ [](\A r \in Reqs :
             IsBatch(r) /\ req[r].summaries # <<>> =>
                 /\ Len(req[r].summaries) = 1
                 /\ req[r].pc = "done"
                 /\ req[r].i = req[r].total
                 /\ req[r].submitted = FirstTracks(req[r].total))
    /\ \A r \in Reqs :
          (IsBatch(r) /\ req[r].pc \in {"loop", "summary"})
              ~> \/ req[r].pc = "done" /\ Len(req[r].summaries) = 1
                 \/ req[r].pc = "error" /\ req[r].i = req[r].total

\* a batch of three tracks has ended with its summary: one submission
\* succeeded, one raised in the play command, one found no play command
C17_Witness ==
    \E r \in Reqs :
        /\ IsBatch(r)
        /\ req[r].pc = "done"
        /\ Len(req[r].summaries) = 1
        /\ req[r].total = 3
        /\ req[r].queued = 1
        /\ req[r].falseReturns = 2
        /\ req[r].plays = 2

\* the edits of a batch over total tracks that has shown its summary: in
\* verbose mode the announcement and, in a playlist, the progress every
\* ProgressEvery tracks; in both modes the summary
EditsOfBatch(path, quiet, total) ==
    IF quiet THEN 1
    ELSE IF path = "playlist" THEN 2 + total \div ProgressEvery
    ELSE 2

\* C18: a request reads quiet_mode in one step, before its first message
\* and lookup, and takes the value the store holds then; afterwards its flag
\* does not change whatever tidalquiet does to the store, and the flag, not
\* the store, decides whether a step of the loop edits the progress and
\* whether the summary was preceded by the announcement.  tidalquiet without
\* argument leaves the store as it is.
C18_QuietReadOnce ==
    /\ [](\A r \in Reqs :
             /\ req[r].pc = "read_quiet" =>
                   req[r].msgs = <<>> /\ req[r].lookups = 0 /\ req[r].edits = 0
             /\ IsBatch(r) /\ req[r].summaries # <<>> =>
                   req[r].edits = EditsOfBatch(req[r].path, req[r].quiet,
                                               req[r].total))
    /\ [](QuietModeSet(store, "none") = store)
    /\ [][\A r \in Reqs :
             /\ req[r].pc = "read_quiet" /\ req'[r].pc # "read_quiet"
                   => req'[r].quiet = store.quiet_mode
             /\ req[r].pc \notin {"idle", "read_quiet"}
                   => req'[r].quiet = req[r].quiet
             /\ IsBatch(r) /\ req'[r].i = req[r].i + 1 =>
                   (req'[r].edits = req[r].edits + 1
                       <=> /\ ~req[r].quiet
                           /\ req[r].path = "playlist"
                           /\ req'[r].i % ProgressEvery = 0)]_vars

\* a quiet playlist batch has submitted its ProgressEvery tracks without an
\* edit although tidalquiet switched quiet mode off while it ran
C18_Witness ==
    \E r \in Reqs :
        /\ req[r].path = "playlist"
        /\ req[r].pc = "summary"
        /\ req[r].i = ProgressEvery
        /\ req[r].quiet
        /\ ~store.quiet_mode
        /\ req[r].edits = 0

(***************************************************************************)
(* Properties of the gates and of the classification (SpecUrl).            *)
(***************************************************************************)
\* request r was issued and passed the four gates of tidal
PassedGates(r) ==
    /\ req[r].pc # "idle"
    /\ tidalapi_available /\ req[r].authed /\ req[r].audio /\ req[r].voice

\* request r has done nothing but send the message m
OnlySaid(r, m) ==
    /\ req[r].pc = "done"
    /\ req[r].msgs = <<m>>
    /\ req[r].lookups = 0
    /\ req[r].submitted = <<>>
    /\ req[r].plays = 0
    /\ req[r].edits = 0
    /\ req[r].summaries = <<>>

\* the characters an identifier of each kind is made of
PlaylistIdChars == Letters \cup Digits \cup {"-"}
AlbumIdChars == Digits
TrackIdChars == Digits

\* C4: a request whose URL holds no marker, or whose first marker in the
\* order playlist/, album/, track/ is not followed by an identifier of its
\* kind, sends the one rejection of that kind and does nothing else.
C4_RejectionOnly ==
    \A r \in Reqs :
        PassedGates(r) =>
            LET text == Text(req[r].url)
                p == Contains(PlaylistMarker, text)
                a == Contains(AlbumMarker, text)
                t == Contains(TrackMarker, text)
            IN /\ ~p /\ ~a /\ ~t => OnlySaid(r, "invalid_url")
               /\ p /\ RegexSearch(PlaylistMarker, PlaylistIdChars, text) = NoMatch
                     => OnlySaid(r, "invalid_playlist_url")
               /\ ~p /\ a /\ RegexSearch(AlbumMarker, AlbumIdChars, text) = NoMatch
                     => OnlySaid(r, "invalid_album_url")
               /\ ~p /\ ~a /\ t /\ RegexSearch(TrackMarker, TrackIdChars, text) = NoMatch
                     => OnlySaid(r, "invalid_track_url")

\* a URL whose playlist/ marker has no identifier was rejected although it
\* also holds an album/ marker with an identifier
C4_Witness ==
    \E r \in Reqs :
        /\ PassedGates(r)
        /\ req[r].msgs = <<"invalid_playlist_url">>
        /\ RegexSearch(AlbumMarker, AlbumIdChars, Text(req[r].url)) # NoMatch

\* C5: a request that finds the session not authenticated or the Audio cog
\* not loaded sends one error message and stops: it has no handler, no
\* identifier, no catalog lookup and no submission.
C5_GateStops ==
    \A r \in Reqs :
        req[r].pc # "idle" /\ (~req[r].authed \/ ~req[r].audio) =>
            /\ req[r].path = "none"
            /\ req[r].id = NoMatch
            /\ \/ ~tidalapi_available /\ OnlySaid(r, "tidalapi_not_installed")
               \/ tidalapi_available /\ ~req[r].authed /\ OnlySaid(r, "not_authenticated")
               \/ req[r].authed /\ OnlySaid(r, "audio_not_loaded")

\* a request on a playlist URL with an identifier, from a caller in a voice
\* channel of an authenticated session, stopped because Audio is not loaded
C5_Witness ==
    \E r \in Reqs :
        /\ req[r].pc = "done"
        /\ req[r].authed /\ ~req[r].audio /\ req[r].voice
        /\ PlaylistId(Text(req[r].url)) # NoMatch

\* C9: a URL that contains playlist/ goes to queue_playlist whatever else it
\* contains, and one without playlist/ that contains album/ goes to
\* queue_album; a request has one handler.
C9_Priority ==
    \A r \in Reqs :
        PassedGates(r) =>
            LET text == Text(req[r].url) IN
            /\ Contains(PlaylistMarker, text) => req[r].path = "playlist"
            /\ ~Contains(PlaylistMarker, text) /\ Contains(AlbumMarker, text)
                  => req[r].path = "album"
            /\ req[r].path = "playlist" =>
                  req[r].pc \in {"done", "read_quiet", "fetch", "fetch_tracks",
                                 "loop", "summary", "error"}
            /\ req[r].path = "track" => req[r].edits = 0 /\ req[r].lookups <= 1

\* a URL that begins with album/ and holds playlist/ further on is being
\* queued as a playlist
C9_Witness ==
    \E r \in Reqs :
        /\ PassedGates(r)
        /\ req[r].pc = "fetch_tracks"
        /\ Head(req[r].url) = "album/"
        /\ Contains(PlaylistMarker, Text(req[r].url))
        /\ req[r].path = "playlist"

\* request r said m
Said(r, m) == \E k \in 1 .. Len(req[r].msgs) : req[r].msgs[k] = m

\* the messages with which tidal and its handlers reject a request
Rejections ==
    {"tidalapi_not_installed", "not_authenticated", "audio_not_loaded",
     "join_voice", "invalid_url", "invalid_playlist_url", "invalid_album_url",
     "invalid_track_url"}

\* C19: a request is answered by its first failing gate, in the order
\* library, session, Audio cog, voice channel, URL, and by that gate alone:
\* the rejection is its only message and it makes no lookup, submission or
\* edit, whatever the later gates and the URL would have said; a request
\* that passes all five sends no rejection.
C19_GateOrder ==
    \A r \in Reqs :
        req[r].pc # "idle" =>
            LET url == Text(req[r].url)
                known == Dispatch(url) # "none"
                            /\ ExtractId(Dispatch(url), url) # NoMatch
            IN /\ ~tidalapi_available => OnlySaid(r, "tidalapi_not_installed")
               /\ tidalapi_available /\ ~req[r].authed
                     => OnlySaid(r, "not_authenticated")
               /\ req[r].authed /\ ~req[r].audio => OnlySaid(r, "audio_not_loaded")
               /\ req[r].authed /\ req[r].audio /\ ~req[r].voice
                     => OnlySaid(r, "join_voice")
               /\ PassedGates(r) /\ ~known
                     => OnlySaid(r, InvalidMsg(Dispatch(url)))
               /\ PassedGates(r) /\ known
                     => \A m \in Rejections : ~Said(r, m)
               /\ req[r].lookups > 0 \/ req[r].submitted # <<>>
                     => PassedGates(r) /\ known

\* an unauthenticated request on a URL without marker, from a caller outside
\* any voice channel and without the Audio cog, was told to authenticate
C19_Witness ==
    \E r \in Reqs :
        /\ tidalapi_available
        /\ ~req[r].authed /\ ~req[r].audio /\ ~req[r].voice
        /\ req[r].url # <<>>
        /\ Dispatch(Text(req[r].url)) = "none"
        /\ req[r].msgs = <<"not_authenticated">>
        /\ req[r].pc = "done"

\* C11: a single-track request whose lookup succeeded, and whose messages all
\* went out, has told the user the outcome of the submission when it ends:
\* "Queued" if add_track returned True and "Failed to queue" if it returned
\* False, whatever the quiet flag.
C11_TrackOutcomeSurfaced ==
    \A r \in Reqs :
        /\ req[r].path = "track"
        /\ req[r].pc = "done"
        /\ req[r].submitted = <<1>>
        /\ ~Said(r, "error")
        => IF req[r].falseReturns = 0
           THEN req[r].msgs = <<"queued">>
           ELSE req[r].msgs = <<"failed_to_queue">>

(***************************************************************************)
(* Properties of two requests in flight (SpecPair).                        *)
(***************************************************************************)
\* C14: the submissions of two requests are not interleaved: between two
\* calls of add_track of one request no other request calls add_track.
C14_NoInterleaving ==
    \A r \in Reqs :
        \A j, k \in 1 .. Len(req[r].others) : req[r].others[j] = req[r].others[k]

(***************************************************************************)
(* Properties of the sessions (Spec).                                      *)
(***************************************************************************)
\* tidalsetup run a reported a timeout
TimedOut(a) == \E k \in 1 .. Len(setup[a].msgs) : setup[a].msgs[k] = "timed_out"

\* C6: a tidalsetup run that reported a timeout has returned and has set no
\* field of the store, then or later; until a later run sets one, the four
\* credential fields are the ones the store held when the run began, also
\* when the authorization is granted after the timeout.
C6_TimeoutWritesNothing ==
    \A a \in Auths :
        TimedOut(a) =>
            /\ setup[a].pc = "done"
            /\ setup[a].msgs = <<"starting", "visit_url", "timed_out">>
            /\ setup[a].wrote = {}
            /\ (\A b \in Auths : b > a => setup[b].wrote = {})
                  => Credentials(store) = setup[a].before

\* a run timed out, its authorization was granted afterwards and the session
\* holds its credentials
C6_Witness ==
    \E a \in Auths :
        /\ TimedOut(a)
        /\ auth[a] = "granted"
        /\ session.access_token = a
        /\ \A b \in Auths : b > a => setup[b].wrote = {}

\* C7: whenever a tidal request passes the authentication gate, the store
\* holds the token_type, access_token and refresh_token of the session it
\* passed on.
C7_StoredBeforeUsable ==
    [][\A r \in Reqs :
          req[r].pc = "idle" /\ req'[r].pc # "idle" /\ req'[r].authed =>
              /\ store.token_type = session.token_type
              /\ store.access_token = session.access_token
              /\ store.refresh_token = session.refresh_token]_vars

\* the four credential fields of the store
CredentialFields == {"token_type", "access_token", "refresh_token", "expiry_time"}

\* field f of the record st is set (not None)
IsSet(st, f) == IF f = "expiry_time" THEN Truthy(st[f]) ELSE st[f] # None

\* tidalsetup run a said m
SetupSaid(a, m) == \E k \in 1 .. Len(setup[a].msgs) : setup[a].msgs[k] = m

\* C15: a step changes a credential field of the store only if it is a
\* write of a tidalsetup run whose authorization was granted and whose login
\* check passed, and the field is set afterwards; steps of tidal, tidalquiet
\* and load_session change none.  A run that timed out, failed the login
\* check or faulted without a granted authorization has written nothing.  A
\* field that is set stays set.
C15_CredentialsFrame ==
    /\ [][\A f \in CredentialFields :
             store'[f] # store[f] =>
                 /\ IsSet(store', f)
                 /\ req' = req /\ load' = load
                 /\ store'.quiet_mode = store.quiet_mode
                 /\ \E a \in Auths :
                       /\ auth[a] = "granted"
                       /\ setup[a].msgs = <<"starting", "visit_url">>
                       /\ setup'[a].wrote = setup[a].wrote \cup {f}]_vars
    /\ [][\A f \in CredentialFields : IsSet(store, f) => IsSet(store', f)]_vars
    /\ [](\A a \in Auths :
             \/ SetupSaid(a, "timed_out")
             \/ SetupSaid(a, "login_failed")
             \/ SetupSaid(a, "tidalapi_not_installed")
             \/ auth[a] # "granted"
             => setup[a].wrote = {})

\* a tidalsetup run has replaced the four credentials an earlier process
\* stored, while quiet mode was switched off and a tidal request was answered
C15_Witness ==
    \E a \in Auths :
        /\ setup[a].pc = "done"
        /\ setup[a].wrote = CredentialFields
        /\ setup[a].before = Credentials(StoredBy(Earlier))
        /\ Credentials(store) = Credentials(StoredBy(a))
        /\ ~store.quiet_mode
        /\ req[1].pc = "done"
        /\ load.pc = "done"

\* C16: when a tidalsetup run reports "Setup complete!", the token_type,
\* access_token and refresh_token in the store are those of the run's own
\* authorization, and the expiry_time in the store is that authorization's
\* or absent: no field is another authorization's.
C16_CompleteIsOneAuthorization ==
    [][\A a \in Auths :
          setup'[a].msgs = Append(setup[a].msgs, "setup_complete") =>
              /\ store'.token_type = a
              /\ store'.access_token = a
              /\ store'.refresh_token = a
              /\ store'.expiry_time \in {Timestamp(DateTime(a)), NoExpiry}]_vars

\* the three fields load_session tests
TokenFields == {"token_type", "access_token", "refresh_token"}

\* C8: load_session calls neither load_oauth_session nor check_login before
\* its last step, and there only if the three fields it read are all set:
\* then they are set in the store, check_login follows load_oauth_session and
\* the session holds what was read; if a field is absent, in the store or when
\* it was read, the step makes no call and leaves the session as it is.
C8_NoValidationWithoutCredentials ==
    /\ [](/\ load.pc # "done" => ~load.loaded /\ ~load.checked
          /\ load.checked => load.loaded
          /\ load.loaded =>
                \A f \in TokenFields : load[f] # None /\ store[f] # None
          /\ load.pc = "done" /\ (\E f \in TokenFields : load[f] = None \/ store[f] = None)
                => ~load.loaded /\ ~load.checked)
    /\ [][load.pc = "decide" /\ load'.pc = "done" =>
             IF \E f \in TokenFields : load[f] = None \/ store[f] = None
             THEN session' = session /\ ~load'.checked /\ ~load'.loaded
             ELSE /\ load'.checked /\ load'.loaded
                  /\ \A f \in TokenFields : session'[f] = load[f]]_vars

\* load_session read a token_type and an access_token but no refresh_token,
\* and returned without a session
C8_Witness ==
    /\ load.pc = "done"
    /\ load.token_type # None
    /\ load.access_token # None
    /\ load.refresh_token = None
    /\ ~load.checked
    /\ session = NewSession

====
